---------------------------- MODULE Spec2Model ----------------------------
(***************************************************************************)
(* A model of the PT104 device session and channel-state manager           *)
(* (src/PT104/__init__.py, class PT104) together with the part of the     *)
(* usbpt104 driver library that the class talks to.                        *)
(*                                                                         *)
(* Time is counted in ticks of 0.75 s, the conversion time of one channel. *)
(***************************************************************************)
EXTENDS Integers, Sequences, FiniteSets, TLC

(***************************************************************************)
(* Bounds of the model.                                                    *)
(***************************************************************************)
\* handle values the driver can hand out: 1..NumHandles
NumHandles == 1
\* status codes the driver can return: 0 (success) .. MaxStatus
MaxStatus == 2
\* the clock runs from 0 to MaxTime ticks
MaxTime == 1
\* the clock of the specifications of the timing runs from 0 to ClockEnd ticks
ClockEnd == 2
\* the raw code a conversion delivers
RawCode == 100000

(***************************************************************************)
(* Unit catalog: class Channels, Wires, DataTypes, CommunicationType,       *)
(* PicoInfo.                                                               *)
(***************************************************************************)
CHANNEL_1 == 1
CHANNEL_2 == 2

WIRES_2 == 2
WIRES_3 == 3
WIRES_4 == 4

OFF == 0
PT100 == 1
PT1000 == 2
RESISTANCE_TO_375R == 3
RESISTANCE_TO_10K == 4
DIFFERENTIAL_TO_115MV == 5
DIFFERENTIAL_TO_2500MV == 6
SINGLE_ENDED_TO_115MV == 7
SINGLE_ENDED_TO_2500MV == 8

\* 0x00000001, 0x00000002, 0xFFFFFFFF: only their identity is used
CT_USB == "CT_USB"
CT_ETHERNET == "CT_ETHERNET"
CT_ALL == "CT_ALL"
CommunicationType == {CT_USB, CT_ETHERNET, CT_ALL}

\* PICO_DRIVER_VERSION = 0 .. PICO_KERNEL_DRIVER_VERSION = 6
PICO_DRIVER_VERSION == 0
PICO_KERNEL_DRIVER_VERSION == 6

\* 0.75 s, the conversion time of one channel, in ticks
TicksPerConversion == 1

\* self._handle = None
None == 0 - 1

\* the keys of self.channels in their order; of CHANNEL_1 .. CHANNEL_4 the
\* model keeps the first two
ChannelOrder == <<CHANNEL_1, CHANNEL_2>>
Channels == {ChannelOrder[i] : i \in 1 .. Len(ChannelOrder)}
Handles == 1 .. NumHandles
Status == 0 .. MaxStatus

\* the (data_type, nb_wires, low_pass_filter) callers pass to set_channel
ConfigArgs ==
    {<<OFF, WIRES_4, FALSE>>, <<PT100, WIRES_3, TRUE>>,
     <<RESISTANCE_TO_10K, WIRES_2, FALSE>>}

(***************************************************************************)
(* Python values a method hands back.                                      *)
(***************************************************************************)
PyBool(b) == [kind |-> "bool", b |-> b]
PyInt(i) == [kind |-> "int", i |-> i]
PyNone == [kind |-> "None"]
PyDict == [kind |-> "dict"]
PyFloat(num, den) == [kind |-> "float", num |-> num, den |-> den]
PyRaise(exc) == [kind |-> "raise", exc |-> exc]
\* the method has not returned yet
Pending == [kind |-> "pending"]

\* bool(v) of a returned value
Truthy(v) ==
    CASE v.kind = "bool" -> v.b
      [] v.kind = "int" -> v.i # 0
      [] v.kind = "float" -> v.num # 0
      [] v.kind = "dict" -> TRUE
      [] OTHER -> FALSE

(***************************************************************************)
(* Calls into libusbpt104, with the status the driver answered where the   *)
(* class reads it, and for a read the time it was made at.                 *)
(***************************************************************************)
CloseUnit(h) == [fn |-> "UsbPt104CloseUnit", handle |-> h]
OpenUnit(status) == [fn |-> "UsbPt104OpenUnit", status |-> status]
GetUnitInfo(h, info) == [fn |-> "UsbPt104GetUnitInfo", handle |-> h, info |-> info]
SetChannel(h, channel, data_type, nb_wires, status) ==
    [fn |-> "UsbPt104SetChannel", handle |-> h, channel |-> channel,
     data_type |-> data_type, nb_wires |-> nb_wires, status |-> status]
GetValue(h, channel, low_pass_filter, status, at) ==
    [fn |-> "UsbPt104GetValue", handle |-> h, channel |-> channel,
     low_pass_filter |-> low_pass_filter, status |-> status, at |-> at]
SetMains(h, sixty_hertz) ==
    [fn |-> "UsbPt104SetMains", handle |-> h, sixty_hertz |-> sixty_hertz]

VARIABLES
    channels,   \* self.channels: channel -> configuration, value, last_query
    handle,     \* self._handle
    hwOpen,     \* the handles the driver has opened and not closed
    now,        \* time()
    pc,         \* where the caller is: "idle", or inside get_value
    gv,         \* the locals of the get_value call in progress
    op,         \* the method called last, with its arguments
    ret,        \* what that call returned
    hwlog,      \* the driver calls that call has made, in order
    hw          \* the unit's side of the channel configuration

vars == <<channels, handle, hwOpen, now, pc, gv, op, ret, hwlog, hw>>

\* a channel the unit has been sent no configuration for
NotSent == <<None, None>>

\* the unit's side at the start of a session: nothing sent yet, and so no
\* UsbPt104SetChannel that failed.  The unit's side is followed only where
\* followed is set, and stays as it is elsewhere
HwFresh(followed) ==
    [followed |-> followed, synced |-> TRUE,
     config |-> [c \in Channels |-> NotSent]]

NoCall == [channel |-> 0, raw_value |-> FALSE, conversion_time |-> 0,
           last_query |-> 0, status |-> 0]

\* PT104.__init__
Init ==
    /\ channels = [c \in Channels |->
                     [data_type |-> OFF, nb_wires |-> WIRES_4,
                      low_pass_filter |-> FALSE, value |-> 0, last_query |-> 0]]
    /\ handle = None
    /\ hwOpen = {}
    /\ now = 0
    /\ pc = "idle"
    /\ gv = NoCall
    /\ op = [name |-> "__init__"]
    /\ ret = PyNone
    /\ hwlog = <<>>
    /\ hw = HwFresh(FALSE)

\* PT104.is_connected
is_connected == handle # None

\* the loop without the test for OFF
RECURSIVE count_all_from(_, _)
count_all_from(chs, i) ==
    IF i > Len(ChannelOrder) THEN 0 ELSE 1 + count_all_from(chs, i + 1)

\* PT104.active_channel_count: the loop over the store from the i-th channel
\* on, which skips the channels that are OFF
RECURSIVE count_active_from(_, _)
count_active_from(chs, i) ==
    IF i > Len(ChannelOrder)
    THEN 0
    ELSE IF chs[ChannelOrder[i]].data_type = OFF
         THEN count_active_from(chs, i + 1)
         ELSE 1 + count_active_from(chs, i + 1)

\* PT104.active_channel_count
active_channel_count == count_active_from(channels, 1)


(***************************************************************************)
(* The driver library.                                                     *)
(***************************************************************************)
\* UsbPt104OpenUnit: status 0 and a handle that is not open, or an error status
OpenOutcomes(open) ==
    {[status |-> 0, handle |-> h] : h \in Handles \ open}
        \cup {[status |-> s, handle |-> 0] : s \in Status \ {0}}

\* what UsbPt104OpenUnit can answer to connect: it is asked for CT_USB only
OpenAnswers(interface, open) ==
    IF interface = CT_USB
    THEN OpenOutcomes(open)
    ELSE {[status |-> 0, handle |-> 0]}

\* what UsbPt104SetChannel can answer to set_channel: it is asked only when
\* a handle is held
SetChannelAnswers(h) == IF h # None THEN Status ELSE {0}

\* UsbPt104SetChannel, called once per channel by set_channels: each call
\* succeeds or fails
PushStatus == [Channels -> {0, MaxStatus}]

\* what UsbPt104SetChannel can answer to connect: it is asked only after an
\* open that succeeded
PushAnswers(interface, r) ==
    IF interface = CT_USB /\ r.status = 0
    THEN PushStatus
    ELSE {[c \in Channels |-> 0]}

\* UsbPt104GetValue: status 0 and a raw code written through the pointer, or
\* an error status and nothing written
ReadOutcomes(old) ==
    {[status |-> 0, value |-> RawCode]}
        \cup {[status |-> s, value |-> old] : s \in Status \ {0}}

\* UsbPt104CloseUnit
DriverClose(open, h) == open \ {h}

\* the unit's side after one driver call: an open that succeeds and a close
\* start afresh; a UsbPt104SetChannel that returns 0 has given the unit the
\* data type and wire count of the call, one that fails has left the unit as
\* it was; the other calls do not touch the configuration
DriverCall(unit, call) ==
    IF ~unit.followed THEN unit
    ELSE IF call.fn = "UsbPt104OpenUnit"
    THEN (IF call.status = 0 THEN HwFresh(TRUE) ELSE unit)
    ELSE IF call.fn = "UsbPt104CloseUnit" THEN HwFresh(TRUE)
    ELSE IF call.fn = "UsbPt104SetChannel"
    THEN (IF call.status = 0
          THEN [unit EXCEPT !.config[call.channel] =
                                <<call.data_type, call.nb_wires>>]
          ELSE [unit EXCEPT !.synced = FALSE])
    ELSE unit

\* the unit's side after the driver calls of one method, in their order
RECURSIVE DriverAfter(_, _)
DriverAfter(unit, calls) ==
    IF calls = <<>>
    THEN unit
    ELSE DriverAfter(DriverCall(unit, Head(calls)), Tail(calls))

(***************************************************************************)
(* The methods of PT104, as functions of the state they read.              *)
(***************************************************************************)
IsConnected(h) == h # None

\* disconnect with the handle kept after the unit is closed
disconnect_keeps_handle(h, open) ==
    IF ~IsConnected(h)
    THEN [ret |-> PyBool(FALSE), handle |-> h, hwOpen |-> open, calls |-> <<>>]
    ELSE [ret |-> PyBool(TRUE), handle |-> h, hwOpen |-> DriverClose(open, h),
          calls |-> <<CloseUnit(h)>>]

\* disconnect without the is_connected test
disconnect_unguarded(h, open) ==
    [ret |-> PyBool(TRUE), handle |-> None, hwOpen |-> DriverClose(open, h),
     calls |-> <<CloseUnit(h)>>]

\* PT104.disconnect
disconnect(h, open) ==
    IF ~IsConnected(h)
    THEN [ret |-> PyBool(FALSE), handle |-> h, hwOpen |-> open, calls |-> <<>>]
    ELSE [ret |-> PyBool(TRUE), handle |-> None, hwOpen |-> DriverClose(open, h),
          calls |-> <<CloseUnit(h)>>]

\* get_unit_info that asks for the driver version in every query
get_unit_info_one_category(h) ==
    IF ~IsConnected(h)
    THEN [ret |-> PyNone, calls |-> <<>>]
    ELSE [ret |-> PyDict,
          calls |-> [i \in 1 .. (PICO_KERNEL_DRIVER_VERSION + 1) |->
                        GetUnitInfo(h, PICO_DRIVER_VERSION)]]

\* PT104.get_unit_info
get_unit_info(h) ==
    IF ~IsConnected(h)
    THEN [ret |-> PyNone, calls |-> <<>>]
    ELSE [ret |-> PyDict,
          calls |-> [i \in 1 .. (PICO_KERNEL_DRIVER_VERSION + 1) |->
                        GetUnitInfo(h, PICO_DRIVER_VERSION + i - 1)]]

\* set_channel that keeps the new configuration only when the driver took it
set_channel_on_success(chs, h, channel, data_type, nb_wires, low_pass_filter, cs) ==
    LET new == [chs EXCEPT ![channel].data_type = data_type,
                           ![channel].nb_wires = nb_wires,
                           ![channel].low_pass_filter = low_pass_filter]
    IN  IF ~IsConnected(h)
        THEN [channels |-> new, ret |-> PyBool(FALSE), calls |-> <<>>]
        ELSE [channels |-> IF cs = 0 THEN new ELSE chs, ret |-> PyInt(cs),
              calls |-> <<SetChannel(h, channel, data_type, nb_wires, cs)>>]

\* set_channel that calls the driver before it has stored the data type
set_channel_sends_old(chs, h, channel, data_type, nb_wires, low_pass_filter, cs) ==
    LET new == [chs EXCEPT ![channel].data_type = data_type,
                           ![channel].nb_wires = nb_wires,
                           ![channel].low_pass_filter = low_pass_filter]
    IN  IF ~IsConnected(h)
        THEN [channels |-> new, ret |-> PyBool(FALSE), calls |-> <<>>]
        ELSE [channels |-> new, ret |-> PyInt(cs),
              calls |-> <<SetChannel(h, channel, chs[channel].data_type,
                                     nb_wires, cs)>>]

\* PT104.set_channel; cs is the status UsbPt104SetChannel returns
set_channel(chs, h, channel, data_type, nb_wires, low_pass_filter, cs) ==
    LET new == [chs EXCEPT ![channel].data_type = data_type,
                           ![channel].nb_wires = nb_wires,
                           ![channel].low_pass_filter = low_pass_filter]
    IN  IF ~IsConnected(h)
        THEN [channels |-> new, ret |-> PyBool(FALSE), calls |-> <<>>]
        ELSE [channels |-> new, ret |-> PyInt(cs),
              calls |-> <<SetChannel(h, channel, data_type, nb_wires, cs)>>]

\* PT104.set_channels from the i-th channel on: set_channel is called without
\* low_pass_filter, which then takes its default False, and what it returns
\* is dropped
RECURSIVE set_channels_from(_, _, _, _)
set_channels_from(chs, h, css, i) ==
    IF i > Len(ChannelOrder)
    THEN [channels |-> chs, calls |-> <<>>]
    ELSE LET c == ChannelOrder[i]
             one == set_channel(chs, h, c, chs[c].data_type, chs[c].nb_wires,
                                FALSE, css[c])
             rest == set_channels_from(one.channels, h, css, i + 1)
         IN  [channels |-> rest.channels, calls |-> one.calls \o rest.calls]

\* set_channels that leaves out the channels that are OFF
set_channels_active_only(chs, h, css) ==
    LET all == set_channels_from(chs, h, css, 1)
    IN  [all EXCEPT !.calls =
             SelectSeq(all.calls, LAMBDA call : call.data_type # OFF)]

\* PT104.set_channels
set_channels(chs, h, css) == set_channels_from(chs, h, css, 1)

\* connect without lines 236-237: the held handle is overwritten
release_held_skipped(h, open) ==
    [ret |-> PyNone, handle |-> h, hwOpen |-> open, calls |-> <<>>]

\* PT104.connect, lines 236-237: the held handle is released first
release_held(h, open) ==
    IF IsConnected(h)
    THEN disconnect(h, open)
    ELSE [ret |-> PyNone, handle |-> h, hwOpen |-> open, calls |-> <<>>]

\* a failed open reported as False instead of the status
open_unit_hides_status(chs, open, r, css) ==
    IF r.status = 0
    THEN LET info == get_unit_info(r.handle)
             push == set_channels(chs, r.handle, css)
         IN  [ret |-> PyBool(TRUE), channels |-> push.channels,
              handle |-> r.handle, hwOpen |-> open \cup {r.handle},
              calls |-> <<OpenUnit(r.status)>> \o info.calls \o push.calls]
    ELSE [ret |-> PyBool(FALSE), channels |-> chs, handle |-> None,
          hwOpen |-> open, calls |-> <<OpenUnit(r.status)>>]

\* PT104.connect, lines 239-252; r is what UsbPt104OpenUnit answers and css
\* the statuses of the UsbPt104SetChannel calls
open_unit(chs, open, r, css) ==
    IF r.status = 0
    THEN LET info == get_unit_info(r.handle)
             push == set_channels(chs, r.handle, css)
         IN  [ret |-> PyBool(TRUE), channels |-> push.channels,
              handle |-> r.handle, hwOpen |-> open \cup {r.handle},
              calls |-> <<OpenUnit(r.status)>> \o info.calls \o push.calls]
    ELSE [ret |-> PyInt(r.status), channels |-> chs, handle |-> None,
          hwOpen |-> open, calls |-> <<OpenUnit(r.status)>>]

\* connect that releases the held handle before it looks at the interface
connect_late_check(chs, h, open, interface, r, css) ==
    LET d == release_held(h, open)
    IN  IF interface = CT_ALL
        THEN [ret |-> PyRaise("ValueError"), channels |-> chs,
              handle |-> d.handle, hwOpen |-> d.hwOpen, calls |-> d.calls]
        ELSE IF interface = CT_ETHERNET
        THEN [ret |-> PyRaise("NotImplementedError"), channels |-> chs,
              handle |-> d.handle, hwOpen |-> d.hwOpen, calls |-> d.calls]
        ELSE LET o == open_unit(chs, d.hwOpen, r, css)
             IN  [o EXCEPT !.calls = d.calls \o o.calls]

\* PT104.connect
connect(chs, h, open, interface, r, css) ==
    IF interface = CT_ALL
    THEN [ret |-> PyRaise("ValueError"), channels |-> chs, handle |-> h,
          hwOpen |-> open, calls |-> <<>>]
    ELSE IF interface = CT_ETHERNET
    THEN [ret |-> PyRaise("NotImplementedError"), channels |-> chs,
          handle |-> h, hwOpen |-> open, calls |-> <<>>]
    ELSE LET d == release_held(h, open)
             o == open_unit(chs, d.hwOpen, r, css)
         IN  [o EXCEPT !.calls = d.calls \o o.calls]

\* set_mains whose call goes through to the driver whatever the handle is
set_mains_unchecked(h, sixty_hertz) ==
    [ret |-> PyBool(TRUE),
     calls |-> <<SetMains(h, IF sixty_hertz THEN 1 ELSE 0)>>]

\* PT104.set_mains; None is no c_short, so ctypes refuses the call
set_mains(h, sixty_hertz) ==
    IF ~IsConnected(h)
    THEN [ret |-> PyRaise("ArgumentError"), calls |-> <<>>]
    ELSE [ret |-> PyBool(TRUE),
          calls |-> <<SetMains(h, IF sixty_hertz THEN 1 ELSE 0)>>]

\* a conversion time that does not grow with the number of active channels
conversion_time_fixed(n) == TicksPerConversion

\* PT104._wait_for_conversion, line 377
conversion_time(n) == n * TicksPerConversion

\* a loop that still goes on at the moment the conversion time is over
waiting_beyond(last_query, conv, t) == last_query + conv >= t

\* PT104._wait_for_conversion, line 379: the loop goes on
waiting(last_query, conv, t) == last_query + conv > t

\* a scaling that takes every code for thousandths
scale_value_millis(chs, value, channel) ==
    IF chs[channel].data_type # OFF THEN PyFloat(value, 1000) ELSE PyNone

\* PT104.scale_value: value / divisor; no branch taken returns None
scale_value(chs, value, channel) ==
    LET data_type == chs[channel].data_type
    IN  IF data_type \in {PT100, PT1000} THEN PyFloat(value, 1000)
        ELSE IF data_type = RESISTANCE_TO_375R THEN PyFloat(value, 1000)
        ELSE IF data_type = RESISTANCE_TO_10K THEN PyFloat(value, 1)
        ELSE IF data_type \in {DIFFERENTIAL_TO_115MV, SINGLE_ENDED_TO_115MV}
             THEN PyFloat(value, 1000000000)
        ELSE IF data_type \in {DIFFERENTIAL_TO_2500MV, SINGLE_ENDED_TO_2500MV}
             THEN PyFloat(value, 100000000)
        ELSE PyNone

\* a get_value that never scales
get_value_result_unscaled(chs, channel, raw_value, status_channel) ==
    IF status_channel = 0 THEN PyFloat(chs[channel].value, 1) ELSE PyNone

\* a get_value that hands out the stored value whatever the status is
get_value_result_any_status(chs, channel, raw_value, status_channel) ==
    IF raw_value
    THEN PyFloat(chs[channel].value, 1)
    ELSE scale_value(chs, chs[channel].value, channel)

\* PT104.get_value, lines 321-326
get_value_result(chs, channel, raw_value, status_channel) ==
    IF status_channel = 0
    THEN IF raw_value
         THEN PyFloat(chs[channel].value, 1)
         ELSE scale_value(chs, chs[channel].value, channel)
    ELSE PyNone

(***************************************************************************)
(* The calls a single caller makes, one after the other.                   *)
(***************************************************************************)
\* PT104.connect, called with one of the given interfaces
ConnectVia(interfaces) ==
    /\ pc = "idle"
    /\ \E interface \in interfaces :
         \E r \in OpenAnswers(interface, release_held(handle, hwOpen).hwOpen) :
          \E css \in PushAnswers(interface, r) :
            LET res == connect(channels, handle, hwOpen, interface, r, css)
            IN  /\ channels' = res.channels
                /\ handle' = res.handle
                /\ hwOpen' = res.hwOpen
                /\ ret' = res.ret
                /\ hwlog' = res.calls
                /\ op' = [name |-> "connect", interface |-> interface]
    /\ gv' = NoCall
    /\ UNCHANGED <<now, pc>>
    /\ hw' = DriverAfter(hw, hwlog')

Connect == ConnectVia(CommunicationType)

Disconnect ==
    /\ pc = "idle"
    /\ LET res == disconnect(handle, hwOpen)
       IN  /\ handle' = res.handle
           /\ hwOpen' = res.hwOpen
           /\ ret' = res.ret
           /\ hwlog' = res.calls
    /\ op' = [name |-> "disconnect"]
    /\ gv' = NoCall
    /\ UNCHANGED <<channels, now, pc>>
    /\ hw' = DriverAfter(hw, hwlog')

\* PT104.set_channel, called with one of the given configurations
SetChannelWith(cfgs) ==
    /\ pc = "idle"
    /\ \E channel \in Channels, cfg \in cfgs,
          cs \in SetChannelAnswers(handle) :
         LET data_type == cfg[1]
             nb_wires == cfg[2]
             low_pass_filter == cfg[3]
             res == set_channel(channels, handle, channel, data_type, nb_wires,
                                low_pass_filter, cs)
         IN  /\ channels' = res.channels
             /\ ret' = res.ret
             /\ hwlog' = res.calls
             /\ op' = [name |-> "set_channel", channel |-> channel,
                       data_type |-> data_type, nb_wires |-> nb_wires,
                       low_pass_filter |-> low_pass_filter]
    /\ gv' = NoCall
    /\ UNCHANGED <<handle, hwOpen, now, pc>>
    /\ hw' = DriverAfter(hw, hwlog')

SetChannelCall == SetChannelWith(ConfigArgs)

SetMainsCall ==
    /\ pc = "idle"
    /\ \E sixty_hertz \in BOOLEAN :
         LET res == set_mains(handle, sixty_hertz)
         IN  /\ ret' = res.ret
             /\ hwlog' = res.calls
    /\ op' = [name |-> "set_mains"]
    /\ gv' = NoCall
    /\ UNCHANGED <<channels, handle, hwOpen, now, pc>>
    /\ hw' = DriverAfter(hw, hwlog')

GetUnitInfoCall ==
    /\ pc = "idle"
    /\ LET res == get_unit_info(handle)
       IN  /\ ret' = res.ret
           /\ hwlog' = res.calls
    /\ op' = [name |-> "get_unit_info"]
    /\ gv' = NoCall
    /\ UNCHANGED <<channels, handle, hwOpen, now, pc>>
    /\ hw' = DriverAfter(hw, hwlog')

\* get_value without the is_connected test of line 313
GetValueCallUnguarded(T) ==
    /\ pc = "idle"
    /\ \E channel \in Channels, raw_value \in BOOLEAN :
         /\ op' = [name |-> "get_value", channel |-> channel,
                   raw_value |-> raw_value]
         /\ channels[channel].last_query
                 + conversion_time(active_channel_count) <= T
         /\ ret' = Pending
         /\ gv' = [channel |-> channel, raw_value |-> raw_value,
                   conversion_time |-> conversion_time(active_channel_count),
                   last_query |-> channels[channel].last_query,
                   status |-> 0]
         /\ pc' = "wait"
    /\ hwlog' = <<>>
    /\ UNCHANGED <<channels, handle, hwOpen, now, hw>>

\* PT104.get_value is called, lines 313-315 and 377-378; a call whose wait
\* would outlast a clock that ends at T is left out
GetValueCallWithin(T) ==
    /\ pc = "idle"
    /\ \E channel \in Channels, raw_value \in BOOLEAN :
         /\ op' = [name |-> "get_value", channel |-> channel,
                   raw_value |-> raw_value]
         /\ IF ~is_connected
            THEN /\ ret' = PyNone
                 /\ gv' = NoCall
                 /\ pc' = "idle"
            ELSE /\ channels[channel].last_query
                        + conversion_time(active_channel_count) <= T
                 /\ ret' = Pending
                 /\ gv' = [channel |-> channel, raw_value |-> raw_value,
                           conversion_time |->
                               conversion_time(active_channel_count),
                           last_query |-> channels[channel].last_query,
                           status |-> 0]
                 /\ pc' = "wait"
    /\ hwlog' = <<>>
    /\ UNCHANGED <<channels, handle, hwOpen, now, hw>>

GetValueCall == GetValueCallWithin(MaxTime)

\* a read that keeps the time of the query only when the driver succeeded
GetValueReadOnSuccess ==
    /\ pc = "wait"
    /\ ~waiting(gv.last_query, gv.conversion_time, now)
    /\ \E r \in ReadOutcomes(channels[gv.channel].value) :
         /\ channels' = [channels EXCEPT
                            ![gv.channel].value = r.value,
                            ![gv.channel].last_query =
                                IF r.status = 0 THEN now ELSE @]
         /\ gv' = [gv EXCEPT !.status = r.status]
         /\ hwlog' = <<GetValue(handle, gv.channel,
                                channels[gv.channel].low_pass_filter,
                                r.status, now)>>
    /\ pc' = "scale"
    /\ UNCHANGED <<handle, hwOpen, now, op, ret>>
    /\ hw' = DriverAfter(hw, hwlog')

\* PT104.get_value, lines 379-320: the loop of _wait_for_conversion ends, the
\* value is read and the time of the query is kept
GetValueRead ==
    /\ pc = "wait"
    /\ ~waiting(gv.last_query, gv.conversion_time, now)
    /\ \E r \in ReadOutcomes(channels[gv.channel].value) :
         /\ channels' = [channels EXCEPT ![gv.channel].value = r.value,
                                         ![gv.channel].last_query = now]
         /\ gv' = [gv EXCEPT !.status = r.status]
         /\ hwlog' = <<GetValue(handle, gv.channel,
                                channels[gv.channel].low_pass_filter,
                                r.status, now)>>
    /\ pc' = "scale"
    /\ UNCHANGED <<handle, hwOpen, now, op, ret>>
    /\ hw' = DriverAfter(hw, hwlog')

\* PT104.get_value, lines 321-326
GetValueReturn ==
    /\ pc = "scale"
    /\ ret' = get_value_result(channels, gv.channel, gv.raw_value, gv.status)
    /\ pc' = "idle"
    /\ UNCHANGED <<channels, handle, hwOpen, now, gv, op, hwlog, hw>>

\* the clock advances, up to T
TickWithin(T) ==
    /\ now < T
    /\ now' = now + 1
    /\ UNCHANGED <<channels, handle, hwOpen, pc, gv, op, ret, hwlog, hw>>

Tick == TickWithin(MaxTime)

Next ==
    \/ Connect
    \/ Disconnect
    \/ SetChannelCall
    \/ SetMainsCall
    \/ GetUnitInfoCall
    \/ GetValueCall
    \/ GetValueRead
    \/ GetValueReturn
    \/ Tick

Spec == Init /\ [][Next]_vars

(***************************************************************************)
(* The timing of get_value, on a longer clock: the calls that read or      *)
(* write the channel store, the handle or the clock.                       *)
(***************************************************************************)
ConnectUsb == ConnectVia({CT_USB})

\* a channel is switched off or made a PT100 channel
SetChannelTimed ==
    SetChannelWith({cfg \in ConfigArgs : cfg[1] \in {OFF, PT100}})

GetValueCallTimed == GetValueCallWithin(ClockEnd)

TickTimed == TickWithin(ClockEnd)

NextTimed ==
    \/ ConnectUsb
    \/ Disconnect
    \/ SetChannelTimed
    \/ GetValueCallTimed
    \/ GetValueRead
    \/ GetValueReturn
    \/ TickTimed

SpecTimed == Init /\ [][NextTimed]_vars

\* the same calls with a clock that keeps advancing and a caller that keeps
\* running: the loop of _wait_for_conversion tests the clock again and again,
\* and the statements after it follow without waiting for anything
SpecFair ==
    /\ Init
    /\ [][NextTimed]_vars
    /\ WF_vars(TickTimed)
    /\ WF_vars(GetValueRead)
    /\ WF_vars(GetValueReturn)

(***************************************************************************)
(* A second caller: while a get_value is between its read and its scaling, *)
(* another thread calls set_channel on the channel that was read, as often *)
(* as it likes.  What its calls return goes to the other thread; of their  *)
(* driver calls the last one is logged, after the read of the get_value.   *)
(***************************************************************************)
OtherSetChannel ==
    /\ pc = "scale"
    /\ \E cfg \in ConfigArgs, cs \in SetChannelAnswers(handle) :
         LET res == set_channel(channels, handle, gv.channel, cfg[1], cfg[2],
                                cfg[3], cs)
         IN  /\ channels' = res.channels
             /\ hwlog' = <<hwlog[1]>> \o res.calls
    /\ UNCHANGED <<handle, hwOpen, now, pc, gv, op, ret>>
    /\ hw' = DriverAfter(hw, hwlog')

\* the clock is followed until the conversion of a single active channel is
\* over, which is when that channel can be read
GetValueCallRace == GetValueCallWithin(conversion_time(1))

TickRace == TickWithin(conversion_time(1))

NextRace ==
    \/ ConnectUsb
    \/ SetChannelTimed
    \/ GetValueCallRace
    \/ GetValueRead
    \/ GetValueReturn
    \/ TickRace
    \/ OtherSetChannel

SpecRace == Init /\ [][NextRace]_vars

(***************************************************************************)
(* The unit's side of the configuration, followed through the calls that   *)
(* open and close a session and that configure a channel.                  *)
(***************************************************************************)
InitHw ==
    /\ channels = [c \in Channels |->
                     [data_type |-> OFF, nb_wires |-> WIRES_4,
                      low_pass_filter |-> FALSE, value |-> 0, last_query |-> 0]]
    /\ handle = None
    /\ hwOpen = {}
    /\ now = 0
    /\ pc = "idle"
    /\ gv = NoCall
    /\ op = [name |-> "__init__"]
    /\ ret = PyNone
    /\ hwlog = <<>>
    /\ hw = HwFresh(TRUE)

NextHw ==
    \/ ConnectUsb
    \/ Disconnect
    \/ SetChannelCall

SpecHw == InitHw /\ [][NextHw]_vars

(***************************************************************************)
(* scale_value on its own: a manager whose channels have been given any of *)
(* the data types, and calls of scale_value with any of the codes.         *)
(***************************************************************************)
DataTypes == OFF .. SINGLE_ENDED_TO_2500MV

\* the codes scale_value is called with
ScaleCodes == {0 - RawCode, 0, 1, RawCode, 250000000}

\* after PT104() and a set_channel(c, data_type, WIRES_4) for each channel
InitScale ==
    /\ channels \in
          [Channels ->
              [data_type : DataTypes, nb_wires : {WIRES_4},
               low_pass_filter : {FALSE}, value : {0}, last_query : {0}]]
    /\ handle = None
    /\ hwOpen = {}
    /\ now = 0
    /\ pc = "idle"
    /\ gv = NoCall
    /\ op = [name |-> "set_channel"]
    /\ ret = PyBool(FALSE)
    /\ hwlog = <<>>
    /\ hw = HwFresh(FALSE)

\* PT104.scale_value is called
ScaleValueCall ==
    /\ pc = "idle"
    /\ \E channel \in Channels, value \in ScaleCodes :
         /\ ret' = scale_value(channels, value, channel)
         /\ op' = [name |-> "scale_value", channel |-> channel,
                   value |-> value]
    /\ hwlog' = <<>>
    /\ gv' = NoCall
    /\ UNCHANGED <<channels, handle, hwOpen, now, pc, hw>>

NextScale == ScaleValueCall

SpecScale == InitScale /\ [][NextScale]_vars

(***************************************************************************)
(* Properties.                                                             *)
(***************************************************************************)
\* the step is a call of the method: a call is made by an idle caller and
\* names itself in op, and of the other steps only the clock's may follow it
\* with op unchanged, and they change now
Called(name) == pc = "idle" /\ op'.name = name /\ now' = now

\* the steps Called picks out are the steps of the methods
CalledIsTheCall ==
    [][/\ Called("connect") <=> Connect
       /\ Called("disconnect") <=> Disconnect
       /\ Called("set_channel") <=> SetChannelCall
       /\ Called("set_mains") <=> SetMainsCall
       /\ Called("get_unit_info") <=> GetUnitInfoCall
       /\ Called("get_value") <=> GetValueCall]_vars

\* the driver calls of one kind in a log
CallsOf(log, fn) == {i \in DOMAIN log : log[i].fn = fn}

\* C1: is_connected holds exactly when a handle is stored, the driver has at
\* most one handle open, and it has one open, the stored one, exactly when
\* is_connected holds.
C1_OneOpenHandle ==
    /\ is_connected <=> handle \in Handles
    /\ Cardinality(hwOpen) <= 1
    /\ (Cardinality(hwOpen) = 1) <=> is_connected
    /\ is_connected => hwOpen = {handle}

\* a connected manager on which a set_channel call has failed in the driver
C1_Witness ==
    /\ is_connected
    /\ hwOpen = {handle}
    /\ op.name = "set_channel"
    /\ ret.kind = "int"
    /\ ret.i # 0

\* C2: connect with the USB interface on a connected manager closes the held
\* handle exactly once, before the one open call; afterwards the driver has
\* exactly the new handle open if the open succeeded and none if it failed.
C2_ReconnectReleasesFirst ==
    [][(Called("connect") /\ is_connected /\ op'.interface = CT_USB) =>
          /\ Len(hwlog') >= 2
          /\ hwlog'[1] = CloseUnit(handle)
          /\ hwlog'[2].fn = "UsbPt104OpenUnit"
          /\ CallsOf(hwlog', "UsbPt104CloseUnit") = {1}
          /\ CallsOf(hwlog', "UsbPt104OpenUnit") = {2}
          /\ IF hwlog'[2].status = 0
             THEN handle' \in Handles /\ hwOpen' = {handle'}
             ELSE handle' = None /\ hwOpen' = {}]_vars

\* a reconnect that succeeded
C2_Witness ==
    /\ op.name = "connect"
    /\ Len(hwlog) >= 2
    /\ hwlog[1].fn = "UsbPt104CloseUnit"
    /\ hwlog[2].fn = "UsbPt104OpenUnit"
    /\ is_connected

\* C3: disconnect on a connected manager makes one close call, clears the
\* handle and returns True; on a disconnected manager it makes no driver call,
\* changes nothing and returns False; a second disconnect right after any
\* disconnect returns False and changes nothing.
C3_Disconnect ==
    [][Called("disconnect") =>
          /\ IF is_connected
             THEN /\ hwlog' = <<CloseUnit(handle)>>
                  /\ hwOpen' = hwOpen \ {handle}
                  /\ handle' = None
                  /\ ret' = PyBool(TRUE)
             ELSE /\ hwlog' = <<>>
                  /\ ret' = PyBool(FALSE)
                  /\ UNCHANGED <<handle, hwOpen>>
          /\ UNCHANGED <<channels, now, pc>>
          /\ LET again == disconnect(handle', hwOpen')
             IN  /\ again.ret = PyBool(FALSE)
                 /\ again.calls = <<>>
                 /\ again.handle = handle'
                 /\ again.hwOpen = hwOpen']_vars

\* a disconnect that closed the unit
C3_Witness ==
    /\ op.name = "disconnect"
    /\ ret = PyBool(TRUE)
    /\ hwlog # <<>>
    /\ ~is_connected

\* C4: connect with CT_ALL raises ValueError and connect with CT_ETHERNET
\* raises NotImplementedError, with no driver call made and the handle, the
\* driver's open handles and the channel store left as they were, on a
\* connected and on a disconnected manager alike.
C4_BadInterfaceFailsFast ==
    [][(Called("connect") /\ op'.interface \in {CT_ALL, CT_ETHERNET}) =>
          /\ ret'.kind = "raise"
          /\ ret'.exc = (IF op'.interface = CT_ALL
                         THEN "ValueError" ELSE "NotImplementedError")
          /\ hwlog' = <<>>
          /\ UNCHANGED <<channels, handle, hwOpen>>]_vars

\* connect with CT_ALL was refused on a connected manager
C4_Witness ==
    /\ op.name = "connect"
    /\ op.interface = CT_ALL
    /\ ret = PyRaise("ValueError")
    /\ is_connected

\* C5: after a connect whose open call answered a non-zero status the manager
\* is disconnected, connect has returned that status, and the call has made
\* no UsbPt104GetUnitInfo and no UsbPt104SetChannel call.
C5_OpenFailure ==
    \A i \in DOMAIN hwlog :
        (op.name = "connect" /\ hwlog[i].fn = "UsbPt104OpenUnit"
            /\ hwlog[i].status # 0)
        => /\ ~is_connected
           /\ hwOpen = {}
           /\ ret = PyInt(hwlog[i].status)
           /\ CallsOf(hwlog, "UsbPt104GetUnitInfo") = {}
           /\ CallsOf(hwlog, "UsbPt104SetChannel") = {}

\* a reconnect whose open call failed with the highest status
C5_Witness ==
    /\ op.name = "connect"
    /\ Len(hwlog) = 2
    /\ hwlog[2] = OpenUnit(MaxStatus)
    /\ ret = PyInt(MaxStatus)
    /\ ~is_connected

\* the driver calls a successful open is followed by: the seven queries of
\* get_unit_info and one UsbPt104SetChannel per channel of the store chs
InfoCalls(h) ==
    [i \in 1 .. (PICO_KERNEL_DRIVER_VERSION - PICO_DRIVER_VERSION + 1) |->
        GetUnitInfo(h, PICO_DRIVER_VERSION + i - 1)]

PushCalls(chs, h) ==
    [i \in 1 .. Len(ChannelOrder) |->
        SetChannel(h, ChannelOrder[i], chs[ChannelOrder[i]].data_type,
                   chs[ChannelOrder[i]].nb_wires, 0)]

\* a log with the statuses of its UsbPt104SetChannel calls left out of account
AnyPushStatus(log) ==
    [i \in DOMAIN log |->
        IF log[i].fn = "UsbPt104SetChannel"
        THEN [log[i] EXCEPT !.status = 0] ELSE log[i]]

\* C6: a connect whose open call answered status 0 stores the handle, makes
\* the unit-info queries on it and then one UsbPt104SetChannel call for every
\* channel of the store, OFF or not, with the data type and the wire count
\* stored for it, and returns True with the manager connected.
C6_OpenSuccess ==
    [][(Called("connect") /\ \E i \in DOMAIN hwlog' :
                      hwlog'[i].fn = "UsbPt104OpenUnit" /\ hwlog'[i].status = 0) =>
          LET first == IF is_connected THEN 2 ELSE 1
              after == SubSeq(hwlog', first, Len(hwlog'))
          IN  /\ handle' \in Handles
              /\ is_connected'
              /\ ret' = PyBool(TRUE)
              /\ AnyPushStatus(after) =
                     <<OpenUnit(0)>> \o InfoCalls(handle')
                         \o PushCalls(channels, handle')]_vars

\* a connect that succeeded with one channel OFF and one channel not
C6_Witness ==
    /\ op.name = "connect"
    /\ ret = PyBool(TRUE)
    /\ is_connected
    /\ channels[CHANNEL_1].data_type = OFF
    /\ channels[CHANNEL_2].data_type # OFF
    /\ Len(hwlog) = 1 + Len(InfoCalls(handle)) + Len(ChannelOrder)

\* the stored configuration of a channel
Config(chs, c) ==
    <<chs[c].data_type, chs[c].nb_wires, chs[c].low_pass_filter>>

\* C7: connect, whether it succeeds or fails, and disconnect leave the stored
\* data type, wire count and low-pass-filter flag of every channel as they
\* were.
C7_ConfigSurvives ==
    [][(Called("connect") \/ Called("disconnect")) =>
          \A c \in Channels : Config(channels', c) = Config(channels, c)]_vars

\* C8: set_channel stores exactly the data type, wire count and filter flag
\* it was called with for its channel, connected or not and whatever the
\* driver answers, and leaves the configuration of the other channels and the
\* value and last query time of all channels as they were.
C8_SetChannelStores ==
    [][Called("set_channel") =>
          /\ Config(channels', op'.channel) =
                <<op'.data_type, op'.nb_wires, op'.low_pass_filter>>
          /\ \A c \in Channels \ {op'.channel} : channels'[c] = channels[c]
          /\ \A c \in Channels :
                /\ channels'[c].value = channels[c].value
                /\ channels'[c].last_query = channels[c].last_query]_vars

\* a set_channel on a connected manager that the driver refused, on a channel
\* that has been read before
C8_Witness ==
    /\ op.name = "set_channel"
    /\ is_connected
    /\ ret.kind = "int"
    /\ ret.i # 0
    /\ op.low_pass_filter
    /\ channels[op.channel].low_pass_filter
    /\ channels[op.channel].value = RawCode

\* C9: set_channel returns False and makes no driver call on a disconnected
\* manager, and returns a value that reads as true when the manager is
\* connected and UsbPt104SetChannel answered status 0.
C9_ResultTellsHardwareUpdated ==
    op.name = "set_channel" =>
        IF ~is_connected
        THEN ret = PyBool(FALSE) /\ hwlog = <<>>
        ELSE /\ Len(hwlog) = 1
             /\ hwlog[1].fn = "UsbPt104SetChannel"
             /\ hwlog[1].status = 0 => Truthy(ret)

\* the number of channels of the store that are not OFF
NotOff(chs) == Cardinality({c \in Channels : chs[c].data_type # OFF})

\* C10: active_channel_count is the number of channels whose stored data type
\* is not OFF, 0 after construction; a set_channel that turns an active
\* channel OFF lowers it by 1, one that turns an OFF channel active raises it
\* by 1, and no step other than a set_channel changes it.
C10_ActiveChannelCount ==
    /\ active_channel_count = 0
    /\ [](active_channel_count = NotOff(channels))
    /\ [][/\ Called("set_channel") =>
               LET was == channels[op'.channel].data_type # OFF
                   is == op'.data_type # OFF
               IN  active_channel_count' =
                      active_channel_count + (IF is THEN 1 ELSE 0)
                                           - (IF was THEN 1 ELSE 0)
          /\ ~Called("set_channel") =>
               active_channel_count' = active_channel_count]_vars

\* a set_channel has turned one of two active channels OFF
C10_Witness ==
    /\ op.name = "set_channel"
    /\ op.data_type = OFF
    /\ active_channel_count = 1
    /\ \E c \in Channels : channels[c].low_pass_filter

\* C11: get_value on a disconnected manager returns None at once: it makes
\* no driver call, does not enter the wait of _wait_for_conversion, and
\* leaves the handle, the driver's open handles and the configuration, value
\* and last query time of every channel as they were.
C11_DisconnectedGetValue ==
    [][(Called("get_value") /\ ~is_connected) =>
          /\ ret' = PyNone
          /\ hwlog' = <<>>
          /\ pc' = "idle"
          /\ UNCHANGED <<channels, handle, hwOpen, now>>]_vars

\* get_value has returned None on a manager that was disconnected after a
\* successful read
C11_Witness ==
    /\ op.name = "get_value"
    /\ ~is_connected
    /\ pc = "idle"
    /\ ret = PyNone
    /\ hwlog = <<>>
    /\ \E c \in Channels : channels[c].value = RawCode

\* the step is the UsbPt104GetValue call of a get_value
Reads == pc = "wait" /\ pc' = "scale"

\* C12: UsbPt104GetValue for a channel is never called earlier than the last
\* query time of the channel plus 0.75 s (one tick) for each channel that is
\* not OFF when get_value is called: one tick after the last query with one
\* active channel, two ticks with two.
C12_TimingGuard ==
    [][Reads =>
          LET c == gv.channel
              at == hwlog'[1].at
          IN  /\ hwlog'[1].fn = "UsbPt104GetValue"
              /\ hwlog'[1].channel = c
              /\ at = now
              /\ at >= channels[c].last_query
                          + TicksPerConversion * NotOff(channels)
              /\ NotOff(channels) = 1 =>
                    at - channels[c].last_query >= TicksPerConversion
              /\ NotOff(channels) = 2 =>
                    at - channels[c].last_query >= 2 * TicksPerConversion]_vars

\* a channel is read with two channels active, at the first moment the guard
\* allows
C12_Witness ==
    /\ pc = "scale"
    /\ is_connected
    /\ active_channel_count = 2
    /\ hwlog[1].fn = "UsbPt104GetValue"
    /\ hwlog[1].at = gv.last_query + 2 * TicksPerConversion

\* the channel has been read before and no read of it has succeeded: a read
\* that succeeds writes RawCode, a read that fails leaves the value alone
OnlyFailedReads(chs, c) == chs[c].value = 0 /\ chs[c].last_query > 0

\* C13: the UsbPt104GetValue call of a get_value sets the last query time of
\* the queried channel to the time of the call, whatever status the driver
\* answers, and leaves the last query time of the other channels alone; so a
\* failing read of a channel that follows a failing read of it is made no
\* earlier than one tick per active channel after that read.
C13_QueryTimeKept ==
    [][Reads =>
          LET c == gv.channel
              at == hwlog'[1].at
          IN  /\ at = now
              /\ channels'[c].last_query = at
              /\ \A d \in Channels \ {c} :
                    channels'[d].last_query = channels[d].last_query
              /\ (hwlog'[1].status # 0 /\ OnlyFailedReads(channels, c)) =>
                    at >= channels[c].last_query
                             + TicksPerConversion * NotOff(channels)]_vars

\* the second of two failing reads of an active channel, made at the first
\* moment the guard allows, while the other channel was read at another time
C13_Witness ==
    /\ pc = "scale"
    /\ gv.status # 0
    /\ channels[gv.channel].value = 0
    /\ gv.last_query > 0
    /\ active_channel_count = 1
    /\ channels[gv.channel].data_type # OFF
    /\ hwlog[1].at = gv.last_query + TicksPerConversion
    /\ channels[gv.channel].last_query = hwlog[1].at
    /\ \E d \in Channels : channels[d].last_query # hwlog[1].at

\* the data types scaling is defined for, and the divisor of each
Mapped ==
    {PT100, PT1000, RESISTANCE_TO_375R, RESISTANCE_TO_10K,
     DIFFERENTIAL_TO_115MV, DIFFERENTIAL_TO_2500MV,
     SINGLE_ENDED_TO_115MV, SINGLE_ENDED_TO_2500MV}

Divisor(data_type) ==
    CASE data_type \in {PT100, PT1000, RESISTANCE_TO_375R} -> 1000
      [] data_type = RESISTANCE_TO_10K -> 1
      [] data_type \in {DIFFERENTIAL_TO_115MV, SINGLE_ENDED_TO_115MV} ->
            1000000000
      [] data_type \in {DIFFERENTIAL_TO_2500MV, SINGLE_ENDED_TO_2500MV} ->
            100000000

\* the step is the return of a get_value that has made its read
Returns == pc = "scale" /\ pc' = "idle"

\* C14: a get_value on a connected manager makes exactly one UsbPt104GetValue
\* call, on the held handle, and returns after it without a second one.  If
\* the driver answers status 0 the code read is stored as the value of the
\* channel and get_value returns it, as it is when raw_value is set and
\* divided by the divisor of the channel's data type otherwise; if the driver
\* answers another status the value of the channel stays as it was and
\* get_value returns None, raising nothing.
C14_OneReadPerCall ==
    [][/\ (pc = "wait" /\ pc' # "wait") => Reads
       /\ (pc = "scale" /\ pc' # "scale") => Returns
       /\ Reads =>
             LET c == gv.channel
             IN  /\ hwlog = <<>>
                 /\ Len(hwlog') = 1
                 /\ hwlog'[1].fn = "UsbPt104GetValue"
                 /\ hwlog'[1].handle = handle
                 /\ hwlog'[1].channel = c
                 /\ handle \in Handles
                 /\ IF hwlog'[1].status = 0
                    THEN channels'[c].value = RawCode
                    ELSE channels'[c].value = channels[c].value
                 /\ \A d \in Channels \ {c} :
                       channels'[d].value = channels[d].value
       /\ Returns =>
             LET c == gv.channel
                 data_type == channels[c].data_type
             IN  /\ hwlog' = hwlog
                 /\ channels' = channels
                 /\ CallsOf(hwlog', "UsbPt104GetValue") = {1}
                 /\ ret'.kind # "raise"
                 /\ IF hwlog[1].status # 0
                    THEN ret' = PyNone
                    ELSE IF gv.raw_value
                    THEN ret' = PyFloat(RawCode, 1)
                    ELSE data_type \in Mapped =>
                           ret' = PyFloat(RawCode, Divisor(data_type))]_vars

\* a read of a PT100 channel that failed after an earlier read of it had
\* succeeded: the value of the earlier read is still stored, None is returned
C14_Witness ==
    /\ op.name = "get_value"
    /\ pc = "idle"
    /\ is_connected
    /\ Len(hwlog) = 1
    /\ hwlog[1].fn = "UsbPt104GetValue"
    /\ hwlog[1].status # 0
    /\ channels[gv.channel].data_type = PT100
    /\ channels[gv.channel].value = RawCode
    /\ ret = PyNone

\* a store in which every channel has the given data type
AllOfType(data_type) ==
    [c \in Channels |->
        [data_type |-> data_type, nb_wires |-> WIRES_4,
         low_pass_filter |-> FALSE, value |-> 0, last_query |-> 0]]

\* the float is the number whole + half / 2
IsNumber(f, whole, half) ==
    /\ f.kind = "float"
    /\ f.num \div f.den = whole
    /\ 2 * (f.num % f.den) = half * f.den

\* C15: for every code and every data type but OFF, scale_value returns the
\* code divided by the divisor of the data type: 1000 for PT100, PT1000 and
\* RESISTANCE_TO_375R, 1 for RESISTANCE_TO_10K, 10^9 for the two 115 mV types
\* and 10^8 for the two 2500 mV types; 100000 as PT100 is 100 and 250000000
\* as DIFFERENTIAL_TO_2500MV is 2.5; the call changes nothing of the manager.
C15_ScaledIsCodeOverDivisor ==
    [][(op'.name = "scale_value"
            /\ channels[op'.channel].data_type # OFF) =>
          /\ ret' = PyFloat(op'.value,
                            Divisor(channels[op'.channel].data_type))
          /\ UNCHANGED <<channels, handle, hwOpen, now, pc>>
          /\ hwlog' = <<>>
          /\ IsNumber(scale_value(AllOfType(PT100), 100000, CHANNEL_1),
                      100, 0)
          /\ IsNumber(scale_value(AllOfType(DIFFERENTIAL_TO_2500MV),
                                  250000000, CHANNEL_2), 2, 1)]_vars

\* 250000000 has been scaled as DIFFERENTIAL_TO_2500MV
C15_Witness ==
    /\ op.name = "scale_value"
    /\ op.value = 250000000
    /\ channels[op.channel].data_type = DIFFERENTIAL_TO_2500MV
    /\ ret = PyFloat(250000000, 100000000)
    /\ IsNumber(ret, 2, 1)

\* C16: scaling for a channel whose data type is none of the eight mapped
\* types, OFF in particular, raises an error: a get_value without raw_value
\* whose read of such a channel succeeded ends in that error and not in the
\* None a failed read gives.
C16_UnmappedTypeFailsLoudly ==
    (/\ op.name = "get_value"
     /\ pc = "idle"
     /\ gv.channel # 0
     /\ ~gv.raw_value
     /\ gv.status = 0
     /\ channels[gv.channel].data_type \notin Mapped)
    => /\ ret.kind = "raise"
       /\ ret # PyNone

\* the driver calls that take a handle
TakesHandle ==
    {"UsbPt104CloseUnit", "UsbPt104GetUnitInfo", "UsbPt104GetValue",
     "UsbPt104SetChannel", "UsbPt104SetMains"}

\* C17: UsbPt104SetMains is called only while a handle is held, no driver
\* call that takes a handle is ever made with None for the handle, and a
\* set_mains on a disconnected manager does not return True.
C17_NoCallWithoutHandle ==
    /\ \A i \in DOMAIN hwlog :
          hwlog[i].fn \in TakesHandle => hwlog[i].handle \in Handles
    /\ op.name = "set_mains" =>
          IF is_connected
          THEN /\ Len(hwlog) = 1
               /\ hwlog[1].fn = "UsbPt104SetMains"
               /\ hwlog[1].handle = handle
               /\ ret = PyBool(TRUE)
          ELSE /\ hwlog = <<>>
               /\ ret.kind = "raise"
               /\ ret # PyBool(TRUE)

\* set_mains has been called on a manager that was disconnected before
C17_Witness ==
    /\ op.name = "set_mains"
    /\ ~is_connected
    /\ hwlog = <<>>
    /\ ret = PyRaise("ArgumentError")
    /\ \E c \in Channels : channels[c].value = RawCode

\* C18: get_unit_info on a disconnected manager returns None and makes no
\* driver call; on a connected manager it makes exactly 7 UsbPt104GetUnitInfo
\* calls on the held handle, one for each of the categories 0 (driver
\* version) to 6 (kernel driver version); in both cases the handle, the
\* driver's open handles and the channel store stay as they were.
C18_UnitInfo ==
    [][Called("get_unit_info") =>
          /\ UNCHANGED <<channels, handle, hwOpen>>
          /\ IF ~is_connected
             THEN ret' = PyNone /\ hwlog' = <<>>
             ELSE /\ ret' = PyDict
                  /\ Len(hwlog') = 7
                  /\ \A i \in DOMAIN hwlog' :
                        /\ hwlog'[i].fn = "UsbPt104GetUnitInfo"
                        /\ hwlog'[i].handle = handle
                  /\ {hwlog'[i].info : i \in DOMAIN hwlog'} = 0 .. 6]_vars

\* get_unit_info has been called on a connected manager with an active
\* channel
C18_Witness ==
    /\ op.name = "get_unit_info"
    /\ is_connected
    /\ ret = PyDict
    /\ Len(hwlog) = 7
    /\ hwlog[7] = GetUnitInfo(handle, PICO_KERNEL_DRIVER_VERSION)
    /\ active_channel_count > 0

\* the moment the guard lets the get_value under way go on
Deadline == gv.last_query + TicksPerConversion * NotOff(channels)

\* C19: with a clock that keeps advancing every get_value on a connected
\* manager leaves the wait and returns; while it is in the wait it can go on
\* to its read exactly when the clock has reached the last query time of the
\* channel plus one tick per active channel, so it is not held once that
\* moment has come and not held at all when it had come before the call.
C19_GuardReleases ==
    /\ [](pc = "wait" => (ENABLED GetValueRead <=> now >= Deadline))
    /\ [](pc = "scale" => ENABLED GetValueReturn)
    /\ (pc = "wait") ~> (pc = "scale")
    /\ (pc = "scale") ~> (pc = "idle" /\ ret # Pending)

\* a get_value with two active channels is held in the wait
C19_Witness ==
    /\ pc = "wait"
    /\ is_connected
    /\ active_channel_count = 2
    /\ now < Deadline
    /\ ~ENABLED GetValueRead

\* a get_value without raw_value has returned after a read that succeeded
\* and that was followed, before the scaling, by a set_channel of another
\* caller on the channel read
ScaledAfterSetChannel ==
    /\ pc = "idle"
    /\ op.name = "get_value"
    /\ ~op.raw_value
    /\ Len(hwlog) = 2
    /\ hwlog[1].fn = "UsbPt104GetValue"
    /\ hwlog[1].channel = op.channel
    /\ hwlog[1].status = 0
    /\ hwlog[2].fn = "UsbPt104SetChannel"
    /\ hwlog[2].channel = op.channel

\* C20: get_value without raw_value scales with the data type that is stored
\* for the channel when it scales: when a set_channel of another caller on
\* the same channel comes between the read and the scaling, get_value
\* returns the code that was read divided by the divisor of the data type
\* that set_channel stored.
C20_ScaledWithStoredType ==
    (ScaledAfterSetChannel /\ hwlog[2].data_type \in Mapped) =>
        /\ channels[op.channel].data_type = hwlog[2].data_type
        /\ channels[op.channel].value = RawCode
        /\ ret = PyFloat(RawCode, Divisor(hwlog[2].data_type))

\* a code read from a PT100 channel (the only configuration read with the
\* low pass filter) has been returned as it is, scaled as RESISTANCE_TO_10K
C20_Witness ==
    /\ ScaledAfterSetChannel
    /\ hwlog[1].low_pass_filter
    /\ hwlog[2].data_type = RESISTANCE_TO_10K
    /\ ret = PyFloat(RawCode, 1)
    /\ ret # PyFloat(RawCode, Divisor(PT100))

\* the data type and wire count stored for a channel
Stored(chs, c) == <<chs[c].data_type, chs[c].nb_wires>>

\* C21: while the manager is connected and every UsbPt104SetChannel call
\* since the last open that succeeded has returned 0, the data type and wire
\* count the unit was sent last for each channel are the ones stored for it;
\* a set_channel whose driver call returns another status stores its
\* arguments all the same and leaves the unit as it was, so that the two may
\* differ from then on.
C21_StoreAndUnitInStep ==
    /\ []((is_connected /\ hw.synced) =>
            \A c \in Channels : hw.config[c] = Stored(channels, c))
    /\ [][(Called("set_channel") /\ is_connected
              /\ hwlog'[1].status # 0) =>
             /\ Stored(channels', op'.channel) =
                    <<op'.data_type, op'.nb_wires>>
             /\ hw'.config = hw.config
             /\ ~hw'.synced]_vars

\* a set_channel the unit has taken, on a manager that was connected with
\* the other channel configured: store and unit hold the same two
\* configurations
C21_Witness ==
    /\ is_connected
    /\ hw.synced
    /\ op.name = "set_channel"
    /\ ret = PyInt(0)
    /\ hw.config[op.channel] = <<PT100, WIRES_3>>
    /\ Stored(channels, op.channel) = <<PT100, WIRES_3>>
    /\ \E c \in Channels : hw.config[c] = <<RESISTANCE_TO_10K, WIRES_2>>

\* a set_channel the unit has refused: the store holds a data type the unit
\* has not been sent
StoreAndUnitDiffer ==
    /\ is_connected
    /\ ~hw.synced
    /\ op.name = "set_channel"
    /\ \E c \in Channels : hw.config[c] # Stored(channels, c)

=============================================================================
